---- MODULE Spec2Model ----
(***************************************************************************)
(* Verification harness of the asynchronous (dual clock) FIFO:             *)
(*   - FifoDriver.run_phase            (sim/uvm_env/fifo_driver.py)        *)
(*   - FifoMonitor.run_phase           (sim/uvm_env/fifo_monitor.py)       *)
(*   - reset_async_fifo and the tests  (sim/test_fifo_uvm.py,              *)
(*                                      sim/test_fifo_async_smoke.py)      *)
(* The FIFO device, the sequencer and the scoreboard are not part of the   *)
(* sources; they are modelled from the specification (the definitions      *)
(* whose names start with Dut, Seq or Sb).                                 *)
(*                                                                         *)
(* Simulation time step (cocotb): a rising edge of one clock opens a time  *)
(* step.  The device's registers of that domain sample the pins as they    *)
(* were before the edge.  A coroutine resumed by RisingEdge runs in the    *)
(* same time step: it reads the device outputs as they were before the     *)
(* edge and its pin writes become visible only after the registers have    *)
(* sampled.  ReadOnly is the end of the time step: all values are settled. *)
(* The two clocks are started together, so some time steps hold a rising   *)
(* edge of both: both domains sample, the coroutines waiting on either     *)
(* clock are resumed, and both monitors sample at the one ReadOnly.        *)
(*   step = "run"  : the time step is open; the coroutines resumed by the  *)
(*                   edge (trun, drun) run, in any order, to their next    *)
(*                   await; then the values settle (ReadOnly)              *)
(*   step = "post" : the test coroutine runs after its own ReadOnly        *)
(*   step = "idle" : between two time steps; either clock may tick next    *)
(***************************************************************************)
EXTENDS Integers, Sequences, FiniteSets, TLC

\* Logical capacity of the device.
Depth == 8
\* Payloads of the sequencer's transactions are 1..MaxData (0 is the reset value).
MaxData == 2
\* Longest transaction stream the sequencer holds.
MaxItems == 4
\* reset_async_fifo(dut, cycles=4)
DefaultCycles == 4
\* edges of each clock left to settle after reset (test_fifo_uvm.py)
UvmSettle == 2
\* edges of each clock left to settle after reset (test_fifo_async_smoke.py)
SmokeSettle == 4

PtrMod == 2 * Depth

\* The edges a readiness wait is counted up to (the count saturates above it).
WaitLimit == 4

VARIABLES
  wr, rd, data_in, rst_wr, rst_rd,       \* pins driven by the harness
  full, empty, data_out,                 \* pins driven by the device
  wptr, rptr, wq1, wq2, rq1, rq2, mem, dout,   \* device registers
  step, edge, trun, drun,                \* position inside the time step
  prog, ip, pc, await, cnt,              \* the test coroutine
  dpc, dawait, item, seqq, ndone,        \* driver / sequencer
  stream,                                \* the transactions as enqueued
  read_data,                             \* values sampled by the smoke tests
  prev_rd, prev_empty,                   \* monitor_reads alignment state
  mon,                                   \* the monitor coroutines: off, started, on
  refq, sb_fatal, sb_mismatch,           \* scoreboard
  ev, accW, accR,                        \* history since the last reset
  hw, hr, hd,                            \* history of the last samples
  hres,                                  \* edges awaited by reset_async_fifo
  pw                                     \* pin writes of the open time step

pins    == <<wr, rd, data_in, rst_wr, rst_rd>>
outs    == <<full, empty, data_out>>
wregs   == <<wptr, wq1, wq2, mem>>
rregs   == <<rptr, rq1, rq2, dout>>
simv    == <<step, edge, trun, drun>>
testv   == <<prog, stream, ip, pc, await, cnt>>
drvv    == <<dpc, dawait, item, seqq, ndone>>
monv    == <<prev_rd, prev_empty, mon>>
sbv     == <<refq, sb_fatal, sb_mismatch>>
histv   == <<ev, accW, accR, hw, hr, hd, hres>>
vars    == <<pins, outs, wregs, rregs, simv, testv, drvv, read_data, monv, sbv, histv, pw>>

----------------------------------------------------------------------------
\* Transactions (FifoItem) and monitor events.
WriteItem(d) == [op |-> "WRITE", data |-> d]
ReadItem     == [op |-> "READ", data |-> 0]
Items        == {WriteItem(d) : d \in 1..MaxData} \cup {ReadItem}
NoItem       == [op |-> "NONE", data |-> 0]
Streams      == UNION {[1..n -> Items] : n \in 0..MaxItems}

Event(o, d)  == [op |-> o, data |-> d]

\* The data of the events of one kind, in emission order.
RECURSIVE DataOf(_, _)
DataOf(evs, o) ==
  IF evs = <<>> THEN <<>>
  ELSE IF Head(evs).op = o THEN <<Head(evs).data>> \o DataOf(Tail(evs), o)
       ELSE DataOf(Tail(evs), o)

----------------------------------------------------------------------------
\* The device (modelled from the specification): a queue of Depth entries,
\* each side sees the other side's pointer through a two-stage synchroniser.
DutFull(wp, rp_seen)  == ((wp - rp_seen) % PtrMod) = Depth
DutEmpty(rp, wp_seen) == rp = wp_seen

\* Registers of the write domain after a rising edge of clk_wr.
DutWrAccept == rst_wr = 0 /\ wr = 1 /\ full = 0
DutWrEdge ==
  IF rst_wr = 1
  THEN /\ wptr' = 0 /\ wq1' = 0 /\ wq2' = 0 /\ mem' = mem
  ELSE /\ wptr' = IF DutWrAccept THEN (wptr + 1) % PtrMod ELSE wptr
       /\ mem'  = IF DutWrAccept THEN [mem EXCEPT ![wptr % Depth] = data_in] ELSE mem
       /\ wq2'  = wq1
       /\ wq1'  = rptr

\* Registers of the read domain after a rising edge of clk_rd.
DutRdAccept == rst_rd = 0 /\ rd = 1 /\ empty = 0
DutRdEdge ==
  IF rst_rd = 1
  THEN /\ rptr' = 0 /\ rq1' = 0 /\ rq2' = 0 /\ dout' = 0
  ELSE /\ rptr' = IF DutRdAccept THEN (rptr + 1) % PtrMod ELSE rptr
       /\ dout' = IF DutRdAccept THEN mem[rptr % Depth] ELSE dout
       /\ rq2'  = rq1
       /\ rq1'  = wptr

----------------------------------------------------------------------------
\* The scoreboard (modelled from the specification).
SbWrite(q, d) == Append(q, d)
SbReadOk(q)   == q /= <<>>

\* The reference queue is emptied on reset.
SbReset(s, rw, rr) == IF rw = 1 \/ rr = 1 THEN <<<<>>, s[2], s[3]>> ELSE s

RECURSIVE SbConsume(_, _)
\* state is <<queue, fatal, mismatches>>
SbConsume(s, evs) ==
  IF evs = <<>> THEN s
  ELSE LET e == Head(evs)
           s1 == IF e.op = "WRITE" THEN <<SbWrite(s[1], e.data), s[2], s[3]>>
                 ELSE IF ~SbReadOk(s[1]) THEN <<s[1], TRUE, s[3]>>
                 ELSE <<Tail(s[1]), s[2],
                        IF Head(s[1]) = e.data THEN s[3] ELSE TRUE>>
       IN SbConsume(s1, Tail(evs))

----------------------------------------------------------------------------
\* monitor_writes without the test of full.
monitor_writes_ignores_full(rst, w, f, d) ==
  IF rst = 1 THEN <<>>
  ELSE IF w = 1 THEN <<Event("WRITE", d)>>
  ELSE <<>>

\* monitor_writes without the test of reset.
monitor_writes_no_reset_check(rst, w, f, d) ==
  IF w = 1 /\ f = 0 THEN <<Event("WRITE", d)>>
  ELSE <<>>

\* monitor_writes with the test of full inverted.
monitor_writes_inverted_full(rst, w, f, d) ==
  IF rst = 1 THEN <<>>
  ELSE IF w = 1 /\ f = 1 THEN <<Event("WRITE", d)>>
  ELSE <<>>

\* FifoMonitor.run_phase.monitor_writes: the events emitted at one ReadOnly
\* after a rising edge of clk_wr, from the settled values.
monitor_writes(rst, w, f, d) ==
  IF rst = 1 THEN <<>>
  ELSE IF w = 1 /\ f = 0 THEN <<Event("WRITE", d)>>
  ELSE <<>>

\* FifoMonitor.run_phase.monitor_reads: the events emitted at one ReadOnly
\* after a rising edge of clk_rd.
monitor_reads(rst, p_rd, p_empty, d) ==
  IF rst = 1 THEN <<>>
  ELSE IF p_rd = 1 /\ p_empty = 0 THEN <<Event("READ", d)>>
  ELSE <<>>

\* The alignment state left alone under reset.
monitor_reads_prev_kept_under_reset(rst, c_rd, c_empty) == <<c_rd, c_empty>>

\* The alignment state with the two assignments swapped.
monitor_reads_prev_swapped(rst, c_rd, c_empty) ==
  IF rst = 1 THEN <<0, 1>> ELSE <<c_empty, c_rd>>

\* monitor_reads: the alignment state kept for the next edge.
monitor_reads_prev(rst, c_rd, c_empty) ==
  IF rst = 1 THEN <<0, 1>> ELSE <<c_rd, c_empty>>

Bit(b) == IF b THEN 1 ELSE 0

\* The writes of the pins ps by one task, as pairs <<pin, task>>.
PinWrites(task, ps) == {<<p, task>> : p \in ps}
\* The edges reset_async_fifo has awaited in its hold and settle loops.
NoReset == [hold_w |-> 0, hold_r |-> 0, settle_w |-> 0, settle_r |-> 0]

----------------------------------------------------------------------------
\* Clock edges: the registers of the domain sample the pins, and the
\* coroutines awaiting this edge are resumed.
ClkWr ==
  /\ step = "idle"
  /\ DutWrEdge
  /\ accW' = IF DutWrAccept THEN Append(accW, data_in) ELSE accW
  /\ hd' = IF wr = 1 /\ item /= NoItem THEN [hd EXCEPT !.wedges = @ + 1] ELSE hd
  /\ pw' = {}
  /\ edge' = "wr" /\ step' = "run"
  /\ trun' = (await = "wr") /\ drun' = (dawait = "wr")
  /\ UNCHANGED <<pins, outs, rregs, testv, drvv, read_data, monv, sbv, ev, accR, hw, hr, hres>>

ClkRd ==
  /\ step = "idle"
  /\ DutRdEdge
  /\ accR' = IF DutRdAccept THEN Append(accR, mem[rptr % Depth]) ELSE accR
  /\ hd' = IF rd = 1 /\ item /= NoItem THEN [hd EXCEPT !.redges = @ + 1] ELSE hd
  /\ pw' = {}
  /\ edge' = "rd" /\ step' = "run"
  /\ trun' = (await = "rd") /\ drun' = (dawait = "rd")
  /\ UNCHANGED <<pins, outs, wregs, testv, drvv, read_data, monv, sbv, ev, accW, hw, hr, hres>>

\* Both clocks rise in the same time step (Clock(clk_wr) and Clock(clk_rd) are
\* started together): the registers of both domains sample the pins as they
\* were before the step, and the coroutines awaiting either edge are resumed.
ClkBoth ==
  /\ step = "idle"
  /\ DutWrEdge /\ DutRdEdge
  /\ accW' = IF DutWrAccept THEN Append(accW, data_in) ELSE accW
  /\ accR' = IF DutRdAccept THEN Append(accR, mem[rptr % Depth]) ELSE accR
  /\ hd' = IF item = NoItem THEN hd
           ELSE [hd EXCEPT !.wedges = @ + wr, !.redges = @ + rd]
  /\ pw' = {}
  /\ edge' = "both" /\ step' = "run"
  /\ trun' = (await \in {"wr", "rd"}) /\ drun' = (dawait \in {"wr", "rd"})
  /\ UNCHANGED <<pins, outs, testv, drvv, read_data, monv, sbv, ev, hw, hr, hres>>

----------------------------------------------------------------------------
\* End of the time step: the asynchronous resets act, the device outputs take
\* their settled values, and the two monitor coroutines (awaiting ReadOnly
\* after the rising edge of their own clock) sample them; when both clocks
\* rose the scheduler resumes the two in either order.  The monitors
\* exist once run_test has started FifoMonitor.run_phase; in the time step
\* they are started in they reach their first await RisingEdge and take no
\* sample.  The scoreboard exists with them.  The analysis port
\* hands each event to the scoreboard at once.
Sample(rst, strobe, flag, d) == [rst |-> rst, strobe |-> strobe, flag |-> flag, data |-> d]
NoSample == Sample(1, 0, 1, 0)
\* The monitor coroutine that is resumed first when both clocks rose.
MonitorOrders == {"wr", "rd"}

Settle ==
  /\ step = "run" /\ ~trun /\ ~drun
  /\ \E first \in MonitorOrders :
     LET wp  == IF rst_wr = 1 THEN 0 ELSE wptr
         q1w == IF rst_wr = 1 THEN 0 ELSE wq1
         q2w == IF rst_wr = 1 THEN 0 ELSE wq2
         rp  == IF rst_rd = 1 THEN 0 ELSE rptr
         q1r == IF rst_rd = 1 THEN 0 ELSE rq1
         q2r == IF rst_rd = 1 THEN 0 ELSE rq2
         dq  == IF rst_rd = 1 THEN 0 ELSE dout
         f   == Bit(DutFull(wp, q2w))
         e   == Bit(DutEmpty(rp, q2r))
         evw == IF mon = "on" /\ edge \in {"wr", "both"}
                THEN monitor_writes(rst_wr, wr, f, data_in) ELSE <<>>
         evr == IF mon = "on" /\ edge \in {"rd", "both"}
                THEN monitor_reads(rst_rd, prev_rd, prev_empty, dq) ELSE <<>>
         evs == IF first = "wr" THEN evw \o evr ELSE evr \o evw
         prv == IF mon = "on" /\ edge \in {"rd", "both"}
                THEN monitor_reads_prev(rst_rd, rd, e)
                ELSE <<prev_rd, prev_empty>>
         sb0 == IF mon = "on"
                THEN SbReset(<<refq, sb_fatal, sb_mismatch>>, rst_wr, rst_rd)
                ELSE <<refq, sb_fatal, sb_mismatch>>
         sb  == SbConsume(sb0, evs)
     IN /\ wptr' = wp /\ wq1' = q1w /\ wq2' = q2w /\ mem' = mem
        /\ rptr' = rp /\ rq1' = q1r /\ rq2' = q2r /\ dout' = dq
        /\ full' = f /\ empty' = e /\ data_out' = dq
        /\ prev_rd' = prv[1] /\ prev_empty' = prv[2]
        /\ mon' = IF mon = "started" THEN "on" ELSE mon
        /\ ev' = ev \o evs
        /\ refq' = sb[1] /\ sb_fatal' = sb[2] /\ sb_mismatch' = sb[3]
        /\ hw' = IF mon = "on" /\ edge \in {"wr", "both"}
                 THEN [s |-> Sample(rst_wr, wr, f, data_in), evs |-> evw]
                 ELSE hw
        /\ hr' = IF mon = "on" /\ edge \in {"rd", "both"}
                 THEN [prv |-> hr.cur, cur |-> Sample(rst_rd, rd, e, dq), evs |-> evr]
                 ELSE hr
  /\ step' = IF pc = "tr_ro" THEN "post" ELSE "idle"
  /\ UNCHANGED <<pins, edge, trun, drun, testv, drvv, read_data, accW, accR, hd, hres, pw>>

----------------------------------------------------------------------------
\* The test coroutine.  prog is the list of the operations of the test body,
\* ip the operation being executed and pc the await it is suspended at.
OpReset(cycles, settle) == [op |-> "reset", a |-> cycles, b |-> settle, c |-> 0]
OpWrite(d, mode, brk)   == [op |-> "write", a |-> d, b |-> mode, c |-> brk]
OpRead(mode)            == [op |-> "read", a |-> 0, b |-> mode, c |-> 0]
\* a read strobe that is not followed by ReadOnly and a sample of data_out
OpReadPulse             == [op |-> "read", a |-> 0, b |-> "plain", c |-> 1]
OpEdges(clk, n)         == [op |-> "edges", a |-> n, b |-> clk, c |-> 0]
OpAssert(sig, v)        == [op |-> "assert", a |-> v, b |-> sig, c |-> 0]
\* assert on the values read, at the end of a test
OpExpect                == [op |-> "expect", a |-> 0, b |-> "read_data", c |-> 0]
OpRunTest               == [op |-> "run_test", a |-> 0, b |-> 0, c |-> 0]

TRunning == (step = "run" /\ trun) \/ step = "post"
AtOp(o)  == TRunning /\ pc = "next" /\ ip <= Len(prog) /\ prog[ip].op = o
AtPc(l)  == step = "run" /\ trun /\ pc = l
\* The coroutine suspends on a clock edge: its part of the time step is over.
TYield   == trun' = FALSE /\ step' = IF step = "post" THEN "idle" ELSE step
TStay    == UNCHANGED <<step, trun>>

\* reset_async_fifo driving the reset lines with the wrong polarity.
reset_async_fifo_begin_active_low ==
  /\ AtOp("reset")
  /\ rst_wr' = 0 /\ rst_rd' = 0 /\ wr' = 0 /\ rd' = 0 /\ data_in' = 0
  /\ cnt' = prog[ip].a
  /\ pc' = "rst_hold_w" /\ await' = "wr"
  /\ TYield
  /\ ev' = <<>> /\ accW' = <<>> /\ accR' = <<>>
  /\ UNCHANGED <<outs, wregs, rregs, edge, drun, prog, stream, ip, drvv, read_data, monv, sbv, hw, hr, hd>>
  /\ hres' = NoReset
  /\ pw' = pw \cup PinWrites("test", {"rst_wr", "rst_rd", "wr", "rd", "data_in"})

\* reset_async_fifo: assert both resets, strobes low, payload 0; then the
\* hold loop (one edge of clk_wr, one of clk_rd per iteration).  With
\* cycles = 0 the hold loop has no iteration: the resets are released before
\* the first await, which is the first await of the settle loop (range(4),
\* range(2): at least one iteration).
reset_async_fifo_begin ==
  /\ AtOp("reset")
  /\ wr' = 0 /\ rd' = 0 /\ data_in' = 0
  /\ IF prog[ip].a > 0
     THEN /\ rst_wr' = 1 /\ rst_rd' = 1
          /\ cnt' = prog[ip].a
          /\ pc' = "rst_hold_w"
     ELSE /\ rst_wr' = 0 /\ rst_rd' = 0
          /\ cnt' = prog[ip].b
          /\ pc' = "rst_settle_w"
  /\ await' = "wr"
  /\ TYield
  /\ ev' = <<>> /\ accW' = <<>> /\ accR' = <<>>
  /\ UNCHANGED <<outs, wregs, rregs, edge, drun, prog, stream, ip, drvv, read_data, monv, sbv, hw, hr, hd>>
  /\ hres' = NoReset
  /\ pw' = pw \cup PinWrites("test", {"rst_wr", "rst_rd", "wr", "rd", "data_in"})

reset_async_fifo_hold_wr ==
  /\ AtPc("rst_hold_w")
  /\ pc' = "rst_hold_r" /\ await' = "rd"
  /\ TYield
  /\ UNCHANGED <<pins, outs, wregs, rregs, edge, drun, prog, stream, ip, cnt, drvv, read_data, monv, sbv, ev, accW, accR, hw, hr, hd, pw>>
  /\ hres' = [hres EXCEPT !.hold_w = @ + 1]

\* The hold loop leaving one iteration early.
reset_async_fifo_hold_rd_one_short ==
  /\ AtPc("rst_hold_r")
  /\ IF cnt > 2
     THEN /\ cnt' = cnt - 1
          /\ pc' = "rst_hold_w"
          /\ UNCHANGED <<rst_wr, rst_rd, pw>>
     ELSE /\ cnt' = prog[ip].b
          /\ rst_wr' = 0 /\ rst_rd' = 0
          /\ pc' = "rst_settle_w"
          /\ pw' = pw \cup PinWrites("test", {"rst_wr", "rst_rd"})
  /\ await' = "wr"
  /\ TYield
  /\ UNCHANGED <<wr, rd, data_in, outs, wregs, rregs, edge, drun, prog, stream, ip, drvv, read_data, monv, sbv, ev, accW, accR, hw, hr, hd>>
  /\ hres' = [hres EXCEPT !.hold_r = @ + 1]

\* The hold loop ends: both resets are released and the settle loop starts.
reset_async_fifo_hold_rd ==
  /\ AtPc("rst_hold_r")
  /\ IF cnt > 1
     THEN /\ cnt' = cnt - 1
          /\ pc' = "rst_hold_w"
          /\ UNCHANGED <<rst_wr, rst_rd, pw>>
     ELSE /\ cnt' = prog[ip].b
          /\ rst_wr' = 0 /\ rst_rd' = 0
          /\ pc' = "rst_settle_w"
          /\ pw' = pw \cup PinWrites("test", {"rst_wr", "rst_rd"})
  /\ await' = "wr"
  /\ TYield
  /\ UNCHANGED <<wr, rd, data_in, outs, wregs, rregs, edge, drun, prog, stream, ip, drvv, read_data, monv, sbv, ev, accW, accR, hw, hr, hd>>
  /\ hres' = [hres EXCEPT !.hold_r = @ + 1]

reset_async_fifo_settle_wr ==
  /\ AtPc("rst_settle_w")
  /\ pc' = "rst_settle_r" /\ await' = "rd"
  /\ TYield
  /\ UNCHANGED <<pins, outs, wregs, rregs, edge, drun, prog, stream, ip, cnt, drvv, read_data, monv, sbv, ev, accW, accR, hw, hr, hd, pw>>
  /\ hres' = [hres EXCEPT !.settle_w = @ + 1]

\* After the last settle edge the procedure returns to the test body.
reset_async_fifo_settle_rd ==
  /\ AtPc("rst_settle_r")
  /\ IF cnt > 1
     THEN /\ cnt' = cnt - 1
          /\ pc' = "rst_settle_w" /\ await' = "wr"
          /\ ip' = ip
          /\ TYield
     ELSE /\ cnt' = 0
          /\ pc' = "next" /\ await' = "none"
          /\ ip' = ip + 1
          /\ TStay
  /\ UNCHANGED <<pins, outs, wregs, rregs, edge, drun, prog, stream, drvv, read_data, monv, sbv, ev, accW, accR, hw, hr, hd, pw>>
  /\ hres' = [hres EXCEPT !.settle_r = @ + 1]

\* A write of the smoke tests: await RisingEdge(clk_wr), then
\*   mode "plain": drive at once                    (test_basic_write_read)
\*   mode "wait" : while full == 1: await the edge  (writer, test_random_pattern)
\*   mode "break": if full == 1: break              (test_full_fifo)
\* then data_in and wr are driven over one edge.
test_write_begin ==
  /\ AtOp("write")
  /\ pc' = "tw_pre" /\ await' = "wr"
  /\ TYield
  /\ UNCHANGED <<pins, outs, wregs, rregs, edge, drun, prog, stream, ip, cnt, drvv, read_data, monv, sbv, histv, pw>>

test_write_edge ==
  /\ AtPc("tw_pre")
  /\ IF prog[ip].b = "wait" /\ full = 1
     THEN /\ TYield
          /\ UNCHANGED <<wr, data_in, pc, await, ip, pw>>
     ELSE IF prog[ip].b = "break" /\ full = 1
     THEN /\ pc' = "next" /\ await' = "none" /\ ip' = prog[ip].c
          /\ TStay
          /\ UNCHANGED <<wr, data_in, pw>>
     ELSE /\ data_in' = prog[ip].a /\ wr' = 1
          /\ pw' = pw \cup PinWrites("test", {"data_in", "wr"})
          /\ pc' = "tw_pulse"
          /\ TYield
          /\ UNCHANGED <<await, ip>>
  /\ UNCHANGED <<rd, rst_wr, rst_rd, outs, wregs, rregs, edge, drun, prog, stream, cnt, drvv, read_data, monv, sbv, histv>>

test_write_done ==
  /\ AtPc("tw_pulse")
  /\ wr' = 0
  /\ pw' = pw \cup PinWrites("test", {"wr"})
  /\ pc' = "next" /\ await' = "none" /\ ip' = ip + 1
  /\ TStay
  /\ UNCHANGED <<rd, data_in, rst_wr, rst_rd, outs, wregs, rregs, edge, drun, prog, stream, cnt, drvv, read_data, monv, sbv, histv>>

\* A read of the smoke tests:
\*   mode "wait" : while empty == 1: await RisingEdge(clk_rd)
\* then await RisingEdge(clk_rd); rd = 1; await RisingEdge(clk_rd); rd = 0;
\* await ReadOnly(); sample data_out.  test_empty_fifo goes on after rd = 0
\* without ReadOnly and without a sample (OpReadPulse).
test_read_begin ==
  /\ AtOp("read")
  /\ pc' = IF prog[ip].b = "wait" /\ empty = 1 THEN "tr_empty" ELSE "tr_pre"
  /\ await' = "rd"
  /\ TYield
  /\ UNCHANGED <<pins, outs, wregs, rregs, edge, drun, prog, stream, ip, cnt, drvv, read_data, monv, sbv, histv, pw>>

\* The reader resumed by an edge of clk_rd before its strobe: it is either
\* still in the while-empty loop or at the await that precedes rd = 1.
test_read_edge ==
  /\ step = "run" /\ trun /\ pc \in {"tr_empty", "tr_pre"}
  /\ IF pc = "tr_empty"
     THEN /\ pc' = IF empty = 1 THEN "tr_empty" ELSE "tr_pre"
          /\ UNCHANGED <<rd, pw>>
     ELSE /\ rd' = 1
          /\ pw' = pw \cup PinWrites("test", {"rd"})
          /\ pc' = "tr_pulse"
  /\ TYield
  /\ UNCHANGED <<wr, data_in, rst_wr, rst_rd, outs, wregs, rregs, edge, drun, prog, stream, ip, await, cnt, drvv, read_data, monv, sbv, histv>>

test_read_pulse ==
  /\ AtPc("tr_pulse")
  /\ rd' = 0
  /\ pw' = pw \cup PinWrites("test", {"rd"})
  /\ await' = "none"
  /\ IF prog[ip].c = 1
     THEN /\ pc' = "next" /\ ip' = ip + 1
          /\ TStay
     ELSE /\ pc' = "tr_ro" /\ ip' = ip
          /\ TYield
  /\ UNCHANGED <<wr, data_in, rst_wr, rst_rd, outs, wregs, rregs, edge, drun, prog, stream, cnt, drvv, read_data, monv, sbv, histv>>

test_read_sample ==
  /\ step = "post" /\ pc = "tr_ro"
  /\ read_data' = Append(read_data, data_out)
  /\ pc' = "next" /\ ip' = ip + 1
  /\ UNCHANGED <<pins, outs, wregs, rregs, simv, prog, stream, await, cnt, drvv, monv, sbv, histv, pw>>

\* for _ in range(n): await RisingEdge(clk)   (also ClockCycles(clk, n))
test_edges_begin ==
  /\ AtOp("edges")
  /\ cnt' = prog[ip].a
  /\ pc' = "edges" /\ await' = prog[ip].b
  /\ TYield
  /\ UNCHANGED <<pins, outs, wregs, rregs, edge, drun, prog, stream, ip, drvv, read_data, monv, sbv, histv, pw>>

test_edges_edge ==
  /\ AtPc("edges")
  /\ IF cnt > 1
     THEN /\ cnt' = cnt - 1
          /\ TYield
          /\ UNCHANGED <<pc, await, ip>>
     ELSE /\ cnt' = 0
          /\ pc' = "next" /\ await' = "none" /\ ip' = ip + 1
          /\ TStay
  /\ UNCHANGED <<pins, outs, wregs, rregs, edge, drun, prog, stream, drvv, read_data, monv, sbv, histv, pw>>

\* assert int(dut.<sig>.value) == v: a failed assertion ends the test.
test_assert ==
  /\ AtOp("assert")
  /\ IF (IF prog[ip].b = "full" THEN full ELSE empty) = prog[ip].a
     THEN /\ ip' = ip + 1
          /\ TStay
          /\ UNCHANGED <<pc, await>>
     ELSE /\ pc' = "failed" /\ await' = "none"
          /\ TYield
          /\ ip' = ip
  /\ UNCHANGED <<pins, outs, wregs, rregs, edge, drun, prog, stream, cnt, drvv, read_data, monv, sbv, histv, pw>>

\* The test body has no operation left.
test_end ==
  /\ TRunning /\ pc = "next" /\ ip > Len(prog)
  /\ pc' = "done" /\ await' = "none"
  /\ TYield
  /\ UNCHANGED <<pins, outs, wregs, rregs, edge, drun, prog, stream, ip, cnt, drvv, read_data, monv, sbv, histv, pw>>

----------------------------------------------------------------------------
\* run_fifo_basic_uvm_test: uvm_root().run_test starts the run_phase of the
\* components (the driver coroutine, the two monitor coroutines) and never
\* returns to the test body.
\* What the driver did for the transaction in hand: the edges its strobes were
\* high at, the readiness flag it read last, whether it had to wait.
\* polls counts the edges awaited in the wait loop, up to WaitLimit + 1.
NoDrive == [wedges |-> 0, redges |-> 0, flag |-> 0, waited |-> 0, polls |-> 0]
Poll(n) == IF n > WaitLimit THEN n ELSE n + 1

run_test ==
  /\ step = "run" /\ AtOp("run_test")
  /\ pc' = "in_run_test" /\ await' = "none" /\ trun' = FALSE
  /\ dpc' = "drv_get" /\ drun' = TRUE
  /\ mon' = "started" /\ prev_rd' = 0 /\ prev_empty' = 1
  /\ UNCHANGED <<pins, outs, wregs, rregs, step, edge, prog, stream, ip, cnt, dawait, item, seqq, ndone, read_data, sbv, histv, pw>>

\* The sequencer (modelled from the specification): the next transaction is
\* handed over only when the previous one is complete, in queue order.
SeqHasItem == seqq /= <<>>

DAt(l) == step = "run" /\ drun /\ dpc = l

\* FifoDriver.run_phase from get_next_item to the first await of the item.
\* A WRITE polls full, a READ polls empty; when the flag reads 0 the strobe
\* is asserted at once and the coroutine awaits the edge that samples it.
\* An item of any other kind is reported, no pin is written, item_done is
\* called and the loop asks for the next item in the same segment.
drv_get_next_item ==
  /\ DAt("drv_get")
  /\ IF ~SeqHasItem
     THEN /\ dpc' = "drv_blocked" /\ dawait' = "none"
          /\ drun' = FALSE
          /\ UNCHANGED <<item, seqq, ndone, hd, wr, rd, data_in, pw>>
     ELSE /\ item' = Head(seqq) /\ seqq' = Tail(seqq)
          /\ IF Head(seqq).op = "WRITE"
             THEN /\ hd' = [NoDrive EXCEPT !.flag = full, !.waited = full]
                  /\ dawait' = "wr" /\ drun' = FALSE
                  /\ UNCHANGED ndone
                  /\ IF full = 1
                     THEN /\ dpc' = "drv_w_wait"
                          /\ UNCHANGED <<wr, rd, data_in, pw>>
                     ELSE /\ data_in' = Head(seqq).data /\ wr' = 1
                          /\ dpc' = "drv_w_pulse"
                          /\ UNCHANGED rd
                          /\ pw' = pw \cup PinWrites("driver", {"data_in", "wr"})
             ELSE IF Head(seqq).op = "READ"
             THEN /\ hd' = [NoDrive EXCEPT !.flag = empty, !.waited = empty]
                  /\ dawait' = "rd" /\ drun' = FALSE
                  /\ UNCHANGED ndone
                  /\ IF empty = 1
                     THEN /\ dpc' = "drv_r_wait"
                          /\ UNCHANGED <<wr, rd, data_in, pw>>
                     ELSE /\ rd' = 1
                          /\ dpc' = "drv_r_pulse"
                          /\ UNCHANGED <<wr, data_in>>
                          /\ pw' = pw \cup PinWrites("driver", {"rd"})
             ELSE /\ hd' = NoDrive
                  /\ ndone' = ndone + 1
                  /\ dpc' = "drv_get" /\ dawait' = "none"
                  /\ UNCHANGED <<drun, wr, rd, data_in, pw>>
  /\ UNCHANGED <<rst_wr, rst_rd, outs, wregs, rregs, step, edge, trun, testv, read_data, monv, sbv, ev, accW, accR, hw, hr, hres>>

\* while int(self.dut.full.value) == 1: await RisingEdge(self.dut.clk_wr)
drv_write_wait ==
  /\ DAt("drv_w_wait")
  /\ IF full = 1
     THEN UNCHANGED <<wr, data_in, dpc, pw>>
     ELSE /\ data_in' = item.data /\ wr' = 1
          /\ pw' = pw \cup PinWrites("driver", {"data_in", "wr"})
          /\ dpc' = "drv_w_pulse"
  /\ hd' = [hd EXCEPT !.flag = full, !.polls = Poll(@)]
  /\ drun' = FALSE
  /\ UNCHANGED <<rd, rst_wr, rst_rd, outs, wregs, rregs, step, edge, trun, testv, dawait, item, seqq, ndone, read_data, monv, sbv, ev, accW, accR, hw, hr, hres>>

\* Completion signalled with the write strobe left high.
drv_write_done_keeps_wr ==
  /\ DAt("drv_w_pulse")
  /\ dpc' = "drv_get" /\ dawait' = "none"
  /\ ndone' = ndone + 1
  /\ UNCHANGED <<pins, outs, wregs, rregs, simv, testv, item, seqq, read_data, monv, sbv, histv, pw>>

\* self.dut.wr.value = 0; self.seq_item_port.item_done()
drv_write_done ==
  /\ DAt("drv_w_pulse")
  /\ wr' = 0
  /\ pw' = pw \cup PinWrites("driver", {"wr"})
  /\ dpc' = "drv_get" /\ dawait' = "none"
  /\ ndone' = ndone + 1
  /\ UNCHANGED <<rd, data_in, rst_wr, rst_rd, outs, wregs, rregs, simv, testv, item, seqq, read_data, monv, sbv, histv>>

\* The read wait loop leaving at the first edge, whatever empty reads.
drv_read_wait_no_poll ==
  /\ DAt("drv_r_wait")
  /\ rd' = 1
  /\ pw' = pw \cup PinWrites("driver", {"rd"})
  /\ dpc' = "drv_r_pulse"
  /\ hd' = [hd EXCEPT !.flag = empty, !.polls = Poll(@)]
  /\ drun' = FALSE
  /\ UNCHANGED <<wr, data_in, rst_wr, rst_rd, outs, wregs, rregs, step, edge, trun, testv, dawait, item, seqq, ndone, read_data, monv, sbv, ev, accW, accR, hw, hr, hres>>

\* while int(self.dut.empty.value) == 1: await RisingEdge(self.dut.clk_rd)
drv_read_wait ==
  /\ DAt("drv_r_wait")
  /\ IF empty = 1
     THEN UNCHANGED <<rd, dpc, pw>>
     ELSE /\ rd' = 1
          /\ pw' = pw \cup PinWrites("driver", {"rd"})
          /\ dpc' = "drv_r_pulse"
  /\ hd' = [hd EXCEPT !.flag = empty, !.polls = Poll(@)]
  /\ drun' = FALSE
  /\ UNCHANGED <<wr, data_in, rst_wr, rst_rd, outs, wregs, rregs, step, edge, trun, testv, dawait, item, seqq, ndone, read_data, monv, sbv, ev, accW, accR, hw, hr, hres>>

\* The READ branch going back to get_next_item without item_done.
drv_read_done_no_item_done ==
  /\ DAt("drv_r_pulse")
  /\ rd' = 0
  /\ pw' = pw \cup PinWrites("driver", {"rd"})
  /\ dpc' = "drv_get" /\ dawait' = "none"
  /\ UNCHANGED <<wr, data_in, rst_wr, rst_rd, outs, wregs, rregs, simv, testv, item, seqq, ndone, read_data, monv, sbv, histv>>

\* self.dut.rd.value = 0; self.seq_item_port.item_done()
drv_read_done ==
  /\ DAt("drv_r_pulse")
  /\ rd' = 0
  /\ pw' = pw \cup PinWrites("driver", {"rd"})
  /\ dpc' = "drv_get" /\ dawait' = "none"
  /\ ndone' = ndone + 1
  /\ UNCHANGED <<wr, data_in, rst_wr, rst_rd, outs, wregs, rregs, simv, testv, item, seqq, read_data, monv, sbv, histv>>

----------------------------------------------------------------------------
\* The state before the test coroutine starts: pins low, device registers
\* cleared, nothing observed yet.  The monitors are off until run_test.
InitCommon ==
  /\ wr = 0 /\ rd = 0 /\ data_in = 0 /\ rst_wr = 0 /\ rst_rd = 0
  /\ full = 0 /\ empty = 1 /\ data_out = 0
  /\ wptr = 0 /\ rptr = 0 /\ wq1 = 0 /\ wq2 = 0 /\ rq1 = 0 /\ rq2 = 0
  /\ mem = [i \in 0..(Depth - 1) |-> 0] /\ dout = 0
  /\ step = "run" /\ edge = "none" /\ trun = TRUE /\ drun = FALSE
  /\ ip = 1 /\ pc = "next" /\ await = "none" /\ cnt = 0
  /\ dpc = "off" /\ dawait = "none" /\ item = NoItem /\ ndone = 0
  /\ read_data = <<>>
  /\ prev_rd = 0 /\ prev_empty = 1
  /\ refq = <<>> /\ sb_fatal = FALSE /\ sb_mismatch = FALSE
  /\ ev = <<>> /\ accW = <<>> /\ accR = <<>>
  /\ hw = [s |-> NoSample, evs |-> <<>>]
  /\ hr = [prv |-> NoSample, cur |-> NoSample, evs |-> <<>>]
  /\ hd = NoDrive
  /\ hres = NoReset /\ pw = {}

\* run_fifo_basic_uvm_test: reset, then the UVM test with the driver, the
\* monitor and the scoreboard, for every stream the sequencer may hold.
run_fifo_basic_uvm_test == <<OpReset(DefaultCycles, UvmSettle), OpRunTest>>

\* The streams of the sequencer: every stream of at most MaxItems transactions,
\* and the bursts of writes that fill the device, followed by reads.
Payload(i)  == (i % MaxData) + 1
Writes(n)   == [i \in 1..n |-> WriteItem(Payload(i))]
Reads(n)    == [i \in 1..n |-> ReadItem]
Tails       == {<<>>, Reads(1), Reads(Depth + 1), Reads(1) \o Writes(2), Reads(2) \o Writes(1),
                Reads(2) \o Writes(2)}
Bursts      == {Writes(n) \o t : n \in Depth..(Depth + 2), t \in Tails}

Init ==
  /\ InitCommon /\ mon = "off"
  /\ prog = run_fifo_basic_uvm_test
  /\ seqq \in Streams \cup Bursts
  /\ stream = seqq

DriverNext ==
  \/ run_test
  \/ drv_get_next_item
  \/ drv_write_wait
  \/ drv_write_done
  \/ drv_read_wait
  \/ drv_read_done

ResetNext ==
  \/ reset_async_fifo_begin
  \/ reset_async_fifo_hold_wr
  \/ reset_async_fifo_hold_rd
  \/ reset_async_fifo_settle_wr
  \/ reset_async_fifo_settle_rd

Next ==
  \/ ClkWr
  \/ ClkRd
  \/ ClkBoth
  \/ Settle
  \/ ResetNext
  \/ DriverNext

Spec == Init /\ [][Next]_vars

----------------------------------------------------------------------------
\* The UVM test on the streams that never ask for more than the device can
\* hold: in every prefix the Writes are at least the Reads and exceed them by
\* Depth at most.  Both clocks tick for ever, every time step ends, and a
\* resumed coroutine runs.
RECURSIVE Balanced(_, _)
Balanced(st, n) ==
  IF st = <<>> THEN TRUE
  ELSE LET k == IF Head(st).op = "WRITE" THEN n + 1 ELSE n - 1
       IN k >= 0 /\ k <= Depth /\ Balanced(Tail(st), k)

\* Two rounds of two writes and two reads, then writes up to the capacity.
Rounds == Writes(2) \o Reads(2) \o Writes(2) \o Reads(2) \o Writes(Depth)

InitProgress ==
  /\ InitCommon /\ mon = "off"
  /\ prog = run_fifo_basic_uvm_test
  /\ seqq \in {st \in Streams \cup Bursts \cup {Rounds} : Balanced(st, 0)}
  /\ stream = seqq

Fairness ==
  /\ SF_vars(ClkWr) /\ SF_vars(ClkRd)
  /\ WF_vars(Settle) /\ WF_vars(ResetNext) /\ WF_vars(DriverNext)

SpecProgress == InitProgress /\ [][Next]_vars /\ Fairness

----------------------------------------------------------------------------
\* The smoke tests, as the lists of their operations.
\* for i in range(20) of test_full_fifo
FullAttempts == 20
\* the reset in the middle of test_reset_during_operation: cycles=2
MidCycles == 2
\* the values written before and after the reset
PreBase == 96
PostValue == 204
\* the sync waits
SyncWait == 10
LongWait == 20
\* the number of values of a phase of the tests
Chunk == 4
\* prefill and new values of test_simultaneous_rw
PrefillBase == 160
NewBase == 176
\* the write attempted while full
FullValue == 255

\* test_basic_write_read: write_values (0x11, 0x22, 0x33, 0x44)
BasicValues == <<17, 34, 51, 68>>
\* test_empty_fifo: the value written
EmptyValue == 170
\* test_alternating_clocks: test_data starts at 0x10, 8 values, 15 sync edges
AltBase == 16
AltCount == 8
AltWait == 15
\* test_random_pattern: random.seed(42), 16 draws of randint(0, 255)
RandomData == <<57, 12, 140, 125, 114, 71, 52, 44, 216, 16, 15, 47, 111, 119, 13, 101>>

PlainWrites(base, n) == [i \in 1..n |-> OpWrite(base + i - 1, "plain", 0)]
ValueWrites(vals, mode) == [i \in 1..Len(vals) |-> OpWrite(vals[i], mode, 0)]
WaitWrites(base, n)  == [i \in 1..n |-> OpWrite(base + i - 1, "wait", 0)]
WaitReads(n)         == [i \in 1..n |-> OpRead("wait")]

test_basic_write_read ==
  <<OpReset(DefaultCycles, SmokeSettle)>>
  \o ValueWrites(BasicValues, "plain")
  \o <<OpEdges("rd", SyncWait)>>
  \o WaitReads(Len(BasicValues))
  \o <<OpExpect>>

test_empty_fifo ==
  <<OpReset(DefaultCycles, SmokeSettle),
    OpEdges("rd", 1), OpAssert("empty", 1),
    OpWrite(EmptyValue, "plain", 0),
    OpEdges("rd", SyncWait), OpAssert("empty", 0),
    OpReadPulse,
    OpEdges("rd", SyncWait), OpAssert("empty", 1)>>

test_alternating_clocks ==
  <<OpReset(DefaultCycles, SmokeSettle)>>
  \o WaitWrites(AltBase, AltCount)
  \o <<OpEdges("rd", AltWait)>>
  \o WaitReads(AltCount)
  \o <<OpExpect>>

\* One chunk of test_random_pattern: write it, wait, read it back.
RandomChunk(k) ==
  ValueWrites(SubSeq(RandomData, Chunk * k + 1, Chunk * (k + 1)), "wait")
  \o <<OpEdges("rd", SyncWait)>>
  \o WaitReads(Chunk)

test_random_pattern ==
  <<OpReset(DefaultCycles, SmokeSettle)>>
  \o RandomChunk(0) \o RandomChunk(1) \o RandomChunk(2) \o RandomChunk(3)
  \o <<OpExpect>>

test_full_fifo ==
  <<OpReset(DefaultCycles, SmokeSettle)>>
  \o [i \in 1..FullAttempts |-> OpWrite(i - 1, "break", FullAttempts + 2)]
  \o <<OpEdges("wr", 1), OpAssert("full", 1), OpWrite(FullValue, "plain", 0)>>

test_reset_during_operation ==
  <<OpReset(DefaultCycles, SmokeSettle)>>
  \o PlainWrites(PreBase, Chunk)
  \o <<OpReset(MidCycles, SmokeSettle),
       OpEdges("rd", 1), OpAssert("empty", 1), OpAssert("full", 0),
       OpWrite(PostValue, "plain", 0),
       OpEdges("rd", SyncWait), OpRead("plain"), OpExpect>>

\* The writer task is awaited to its end before the reader task is started.
test_simultaneous_rw ==
  <<OpReset(DefaultCycles, SmokeSettle)>>
  \o PlainWrites(PrefillBase, Chunk)
  \o <<OpEdges("rd", SyncWait)>>
  \o WaitWrites(NewBase, Chunk)
  \o WaitReads(Chunk)
  \o <<OpEdges("rd", LongWait)>>
  \o WaitReads(Chunk)
  \o <<OpExpect>>

SmokeTests ==
  {test_basic_write_read, test_full_fifo, test_empty_fifo, test_alternating_clocks,
   test_simultaneous_rw, test_random_pattern, test_reset_during_operation}

\* Values are written, reset is asserted before any read, and then the UVM
\* test drives the transactions of the sequencer.
reset_before_read ==
  <<OpReset(DefaultCycles, SmokeSettle)>>
  \o PlainWrites(PreBase, Chunk)
  \o <<OpReset(MidCycles, SmokeSettle), OpRunTest>>

Scenarios == SmokeTests \cup {reset_before_read}

\* The values a test expects to have read when it ends.
AltValues  == [i \in 1..AltCount |-> AltBase + i - 1]
ExpectedRw ==
  [i \in 1..Chunk |-> PrefillBase + i - 1] \o [i \in 1..Chunk |-> NewBase + i - 1]
ExpectedValues(p) ==
  CASE p = test_basic_write_read   -> BasicValues
    [] p = test_alternating_clocks -> AltValues
    [] p = test_simultaneous_rw    -> ExpectedRw
    [] p = test_random_pattern     -> RandomData
    [] OTHER                       -> <<PostValue>>

\* assert read_values == write_values (== test_data, == expected, value ==
\* 0xCC): a failed assertion ends the test.
test_expect ==
  /\ AtOp("expect")
  /\ IF read_data = ExpectedValues(prog)
     THEN /\ ip' = ip + 1
          /\ TStay
          /\ UNCHANGED <<pc, await>>
     ELSE /\ pc' = "failed" /\ await' = "none"
          /\ TYield
          /\ ip' = ip
  /\ UNCHANGED <<pins, outs, wregs, rregs, edge, drun, prog, stream, cnt, drvv, read_data, monv, sbv, histv, pw>>

TestNext ==
  \/ test_write_begin
  \/ test_write_edge
  \/ test_write_done
  \/ test_read_begin
  \/ test_read_edge
  \/ test_read_pulse
  \/ test_read_sample
  \/ test_edges_begin
  \/ test_edges_edge
  \/ test_assert
  \/ test_expect
  \/ test_end

InitSmoke ==
  /\ InitCommon /\ mon = "off"
  /\ prog \in Scenarios
  /\ seqq \in (IF prog = reset_before_read THEN Streams \cup Bursts ELSE {<<>>})
  /\ stream = seqq

NextSmoke ==
  \/ ClkWr
  \/ ClkRd
  \/ ClkBoth
  \/ Settle
  \/ ResetNext
  \/ TestNext
  \/ DriverNext

SpecSmoke == InitSmoke /\ [][NextSmoke]_vars

----------------------------------------------------------------------------
\* The two monitor coroutines on their own: at every edge the pins and the
\* device outputs they sample take any values, and the events go to the
\* scoreboard.  MonEvents bounds the events of one run.
MonEvents == 2
PayloadEnds == {0, MaxData}

monitor_writes_edge ==
  /\ Len(ev) < MonEvents
  /\ \E r \in 0..1, w \in 0..1, f \in 0..1, d \in PayloadEnds :
       LET evs == monitor_writes(r, w, f, d)
           sb0 == SbReset(<<refq, sb_fatal, sb_mismatch>>, r, rst_rd)
           sb  == SbConsume(sb0, evs)
       IN /\ rst_wr' = r /\ wr' = w /\ full' = f /\ data_in' = d
          /\ ev' = (IF r = 1 THEN <<>> ELSE ev) \o evs
          /\ refq' = sb[1] /\ sb_fatal' = sb[2] /\ sb_mismatch' = sb[3]
          /\ hw' = [s |-> Sample(r, w, f, d), evs |-> evs]
  /\ edge' = "wr"
  /\ UNCHANGED <<rd, rst_rd, empty, data_out, wregs, rregs, step, trun, drun, testv, drvv, read_data, monv, accW, accR, hr, hd, hres, pw>>

monitor_reads_edge ==
  /\ Len(ev) < MonEvents
  /\ \E r \in 0..1, c_rd \in 0..1, c_empty \in 0..1, d \in PayloadEnds :
       LET evs == monitor_reads(r, prev_rd, prev_empty, d)
           prv == monitor_reads_prev(r, c_rd, c_empty)
           sb0 == SbReset(<<refq, sb_fatal, sb_mismatch>>, rst_wr, r)
           sb  == SbConsume(sb0, evs)
       IN /\ rst_rd' = r /\ rd' = c_rd /\ empty' = c_empty /\ data_out' = d
          /\ prev_rd' = prv[1] /\ prev_empty' = prv[2] /\ mon' = mon
          /\ ev' = (IF r = 1 THEN <<>> ELSE ev) \o evs
          /\ refq' = sb[1] /\ sb_fatal' = sb[2] /\ sb_mismatch' = sb[3]
          /\ hr' = [prv |-> hr.cur, cur |-> Sample(r, c_rd, c_empty, d), evs |-> evs]
  /\ edge' = "rd"
  /\ UNCHANGED <<wr, data_in, rst_wr, full, wregs, rregs, step, trun, drun, testv, drvv, read_data, accW, accR, hw, hd, hres, pw>>

InitMon ==
  /\ InitCommon /\ mon = "on"
  /\ prog = <<>> /\ seqq = <<>> /\ stream = <<>>

NextMon ==
  \/ monitor_writes_edge
  \/ monitor_reads_edge

SpecMon == InitMon /\ [][NextMon]_vars

----------------------------------------------------------------------------
\* Properties.  ev holds the events the monitor has emitted since reset was
\* last asserted, accW and accR the values the device has accepted and
\* delivered since then.
WriteEvents == DataOf(ev, "WRITE")
ReadEvents  == DataOf(ev, "READ")

\* All the transactions of the stream are complete and the last time step
\* is over.
DriverDone == dpc = "drv_blocked" /\ step = "idle"

\* N writes followed by N reads, N within the capacity.
WritesThenReads(st) ==
  \E n \in 1..Depth :
    /\ Len(st) = 2 * n
    /\ \A i \in 1..n : st[i].op = "WRITE" /\ st[n + i].op = "READ"

\* C1: after N Write transactions followed by N Read transactions (N within
\* the capacity, no reset in between) the data of the Read events equals the
\* data of the Write events, element by element.
C1_OrderPreserved ==
  (WritesThenReads(stream) /\ DriverDone) => ReadEvents = WriteEvents

\* C2: the number of Read events emitted since the last reset never exceeds
\* the number of Write events emitted since that reset.
C2_ReadsWithinWrites == Len(ReadEvents) <= Len(WriteEvents)

\* C3: the monitor emits exactly one event per transfer the device accepted
\* and none otherwise: between time steps the Read events are the values the
\* device delivered, and once the write strobe is low again the Write events
\* are the values the device accepted.
C3_OneEventPerTransfer ==
  step = "idle" =>
    /\ ReadEvents = accR
    /\ (wr = 0 => WriteEvents = accW)

\* C4: a read request sampled at a read-clock edge N (rd = 1, empty = 0,
\* reset low) gives exactly one Read event at edge N+1, carrying data_out as
\* sampled at edge N+1.
C4_ReadLatency ==
  (hr.prv.rst = 0 /\ hr.prv.strobe = 1 /\ hr.prv.flag = 0)
    => hr.evs = <<Event("READ", hr.cur.data)>>

\* A request was sampled, and data_out at the next edge differs from data_out
\* at the edge of the request.
C4_Witness ==
  /\ hr.prv.rst = 0 /\ hr.prv.strobe = 1 /\ hr.prv.flag = 0
  /\ hr.evs /= <<>>
  /\ hr.cur.data /= hr.prv.data

\* C5: while full reads true, a rising edge of clk_wr changes neither the
\* contents of the device nor its write pointer, whatever wr is, and the
\* monitor emits no Write event at an edge whose settled full is true.
C5_Backpressure ==
  [][ /\ (step = "idle" /\ step' = "run" /\ edge' \in {"wr", "both"} /\ full = 1)
          => (mem' = mem /\ wptr' = wptr /\ accW' = accW)
      /\ (step = "run" /\ step' /= "run" /\ edge \in {"wr", "both"} /\ full' = 1)
          => WriteEvents' = WriteEvents ]_vars

\* The driver has pulsed the write that follows Depth accepted writes while
\* full was true: the device holds Depth values as before and the monitor has
\* no event for it.
C5_Witness ==
  /\ stream = Writes(Depth + 1) /\ DriverDone /\ ndone = Depth + 1
  /\ Len(accW) = Depth /\ wptr = Depth /\ full = 1
  /\ Len(WriteEvents) < Depth

\* C6: when reset_async_fifo returns, at start-up or after writes were
\* accepted, empty reads true, full reads false and the reference queue of
\* the scoreboard is empty.
ResetReturned ==
  /\ step = "run" /\ trun /\ pc = "next"
  /\ ip > 1 /\ prog[ip - 1].op = "reset"

C6_ResetClearsState ==
  ResetReturned => (empty = 1 /\ full = 0 /\ refq = <<>>)

\* The reset in the middle of the run has returned; the values written
\* before it are still in the memory of the device.
C6_Witness ==
  /\ ResetReturned /\ ip > 2
  /\ mem[0] = PreBase /\ mem[Chunk - 1] = PreBase + Chunk - 1

\* The values written before the reset in the middle of the run.
PreValues == {PreBase + i : i \in 0..(Chunk - 1)}
ResetScenarios == {test_reset_during_operation, reset_before_read}

\* C7: values are written and reset is asserted before any read.  Then no
\* Read event and no value sampled by the test carries one of those values; a
\* Read transaction of the driver waits (rd low) as long as empty reads true
\* and asserts rd only once empty has read false; the first value the device
\* delivers after the reset is the first value it accepted after the reset,
\* and test_reset_during_operation ends having read 0xCC alone.
C7_PreResetWriteNotObservable ==
  prog \in ResetScenarios =>
    /\ \A i \in 1..Len(ReadEvents) : ReadEvents[i] \notin PreValues
    /\ \A i \in 1..Len(read_data) : read_data[i] \notin PreValues
    /\ dpc = "drv_r_wait" => (rd = 0 /\ hd.flag = 1)
    /\ dpc = "drv_r_pulse" => hd.flag = 0
    /\ accR /= <<>> => (accW /= <<>> /\ accR[1] = accW[1])
    /\ pc = "done" => read_data = <<PostValue>>

\* After the reset in the middle of the run a Read transaction has waited
\* while empty was true and has then completed: a Read event carries the
\* first value written after the reset, and a value written before the reset
\* is still in the memory of the device.
C7_Witness ==
  /\ prog = reset_before_read
  /\ DriverDone /\ item.op = "READ" /\ hd.waited = 1 /\ hd.redges = 1
  /\ accR = <<accW[1]>> /\ ReadEvents = accR
  /\ mem[1] = PreBase + 1

\* The operations of the writer task and of the reader task in the body of
\* test_simultaneous_rw.
WriterFirst == Chunk + 3
ReaderFirst == WriterFirst + Chunk
WriterSuspended ==
  /\ ip \in WriterFirst..(ReaderFirst - 1)
  /\ pc \in {"tw_pre", "tw_pulse"}
ReaderStarted == ip >= ReaderFirst
\* C8: in test_simultaneous_rw the writer loop and the reader loop run as
\* independent tasks after the prefill (while the writer is suspended on its
\* clock the reader has been started), and the values read are the prefill
\* values followed by the newly written values, in write order.
C8_ConcurrentOrder ==
  prog = test_simultaneous_rw =>
    /\ WriterSuspended => ReaderStarted
    /\ pc = "done" => read_data = ExpectedRw

\* C9: with no reads (the device has delivered no value since the reset) the
\* monitor has emitted at most Depth Write events and no Read event, and the
\* device has accepted at most Depth writes; once it has accepted Depth of
\* them full reads true; and an edge of clk_wr whose settled full is true
\* yields no Write event.
C9_Capacity ==
  /\ accR = <<>> => (Len(WriteEvents) <= Depth /\ ReadEvents = <<>>)
  /\ accR = <<>> => Len(accW) <= Depth
  /\ (accR = <<>> /\ Len(accW) = Depth /\ step = "idle") => full = 1
  /\ hw.s.flag = 1 => hw.evs = <<>>

\* Depth writes were accepted with no read, and the monitor has sampled the
\* next write strobe with full true: no event for it.
C9_Witness ==
  /\ Len(accW) = Depth /\ accR = <<>>
  /\ hw.s.rst = 0 /\ hw.s.strobe = 1 /\ hw.s.flag = 1 /\ hw.evs = <<>>
  /\ Len(WriteEvents) = Depth - 1

\* C10: the driver's handshake.  While it waits, the readiness flag it read
\* last was true, it awaits the clock of the transaction's domain and both
\* strobes are low.  While its strobe is high, the flag it read last was
\* false, data_in is the payload (Write), the strobe has been high at no edge
\* yet or, when the driver is resumed, at exactly one, and the other strobe
\* is low.  When the transaction is complete both strobes are low and the
\* strobe was high at exactly one edge of the transaction's clock and at no
\* edge of the other clock.
C10_DriverHandshake ==
  /\ dpc = "drv_w_wait" =>
       /\ item.op = "WRITE" /\ dawait = "wr" /\ hd.flag = 1 /\ hd.waited = 1
       /\ wr = 0 /\ rd = 0 /\ hd.wedges = 0 /\ hd.redges = 0
  /\ dpc = "drv_r_wait" =>
       /\ item.op = "READ" /\ dawait = "rd" /\ hd.flag = 1 /\ hd.waited = 1
       /\ wr = 0 /\ rd = 0 /\ hd.wedges = 0 /\ hd.redges = 0
  /\ dpc = "drv_w_pulse" =>
       /\ item.op = "WRITE" /\ dawait = "wr" /\ hd.flag = 0
       /\ wr = 1 /\ data_in = item.data /\ rd = 0
       /\ hd.wedges = Bit(step = "run" /\ drun) /\ hd.redges = 0
  /\ dpc = "drv_r_pulse" =>
       /\ item.op = "READ" /\ dawait = "rd" /\ hd.flag = 0
       /\ rd = 1 /\ wr = 0
       /\ hd.redges = Bit(step = "run" /\ drun) /\ hd.wedges = 0
  /\ (dpc \in {"drv_get", "drv_blocked"} /\ item.op = "WRITE") =>
       /\ wr = 0 /\ rd = 0 /\ hd.wedges = 1 /\ hd.redges = 0
  /\ (dpc \in {"drv_get", "drv_blocked"} /\ item.op = "READ") =>
       /\ wr = 0 /\ rd = 0 /\ hd.redges = 1 /\ hd.wedges = 0

\* A Write transaction that had to wait for full to read false is complete.
C10_Witness ==
  /\ dpc = "drv_get" /\ item.op = "WRITE"
  /\ hd.waited = 1 /\ hd.flag = 0 /\ hd.wedges = 1
  /\ wr = 0 /\ data_in = item.data

\* The transactions the driver has obtained from the sequencer so far.
Obtained == Len(stream) - Len(seqq)
InFlight == dpc \in {"drv_w_wait", "drv_w_pulse", "drv_r_wait", "drv_r_pulse"}

\* C11: the driver has at most one transaction in flight: the transactions
\* obtained exceed the calls of item_done by one while a transaction is being
\* driven and by none when the driver asks for the next one; the transaction
\* in hand is the one enqueued at that position, the rest of the queue is
\* the rest of the stream; wr and rd are never both high.
C11_OneInFlight ==
  /\ seqq = SubSeq(stream, Obtained + 1, Len(stream))
  /\ InFlight => (Obtained = ndone + 1 /\ item = stream[Obtained])
  /\ dpc \in {"drv_get", "drv_blocked"} =>
       (Obtained = ndone /\ (ndone > 0 => item = stream[ndone]))
  /\ dpc = "off" => (Obtained = 0 /\ ndone = 0)
  /\ ~(wr = 1 /\ rd = 1)

\* A stream with Writes and Reads is complete: item_done was called once for
\* each of its transactions.
C11_Witness ==
  /\ DriverDone /\ ndone = Len(stream) /\ Len(stream) = MaxItems
  /\ stream[1].op = "WRITE" /\ stream[2].op = "READ" /\ stream[3].op = "WRITE"

\* C12: a readiness wait of the driver is bounded: the loop polling full or
\* empty awaits no more than WaitLimit edges for one transaction.
C12_BoundedWait == hd.polls <= WaitLimit

\* C13: between time steps the length of the reference queue of the
\* scoreboard is the number of Write events minus the number of Read events
\* it has consumed since the last reset, and the queue is empty while reset
\* is asserted.
C13_RefQueueLength ==
  step = "idle" =>
    /\ Len(refq) = Len(WriteEvents) - Len(ReadEvents)
    /\ (rst_wr = 1 \/ rst_rd = 1) => refq = <<>>

\* The tasks that have written a pin in the open time step.
PinNames == {"wr", "rd", "data_in", "rst_wr", "rst_rd"}
PinTasks(p) == {w[2] : w \in {x \in pw : x[1] = p}}

\* C14: in no time step is a pin written by two tasks; in the UVM run wr,
\* data_in and rd are written by the driver task alone, wr and data_in only
\* for a Write transaction and rd only for a Read transaction; and the step
\* in which the monitor tasks sample (the end of the time step) changes no pin.
C14_PinOwnership ==
  [][ /\ \A p \in PinNames : Cardinality(PinTasks(p)') <= 1
      /\ \A w \in pw' \ pw :
           /\ w[1] \in {"wr", "data_in", "rd"} => w[2] = "driver"
           /\ w[2] = "driver" =>
                /\ w[1] \in {"wr", "data_in"} => item'.op = "WRITE"
                /\ w[1] = "rd" => item'.op = "READ"
                /\ w[1] \notin {"rst_wr", "rst_rd"}
      /\ (step = "run" /\ ~trun /\ ~drun) => pins' = pins ]_vars

\* C15: at an edge of clk_wr with rst_wr high the write-side monitor emits
\* nothing, whatever wr, full and data_in are; with rst_wr low it emits one
\* Write event carrying the sampled data_in when wr is 1 and full is 0 at
\* that edge, and nothing otherwise.
C15_WriteSuppression ==
  /\ hw.s.rst = 1 => hw.evs = <<>>
  /\ hw.s.rst = 0 =>
       hw.evs = IF hw.s.strobe = 1 /\ hw.s.flag = 0
                THEN <<Event("WRITE", hw.s.data)>> ELSE <<>>

\* A write edge with reset high, wr high, full low and a payload: no event.
C15_Witness ==
  /\ hw.s.rst = 1 /\ hw.s.strobe = 1 /\ hw.s.flag = 0 /\ hw.s.data = MaxData
  /\ hw.evs = <<>> /\ edge = "wr"

\* C16: at an edge of clk_rd with rst_rd high the read-side monitor emits
\* nothing and its alignment state is prev_rd = 0, prev_empty = 1; so the
\* edge that follows an edge with reset high emits nothing either, whatever
\* was requested before or during the reset.
C16_AlignmentReset ==
  /\ hr.cur.rst = 1 => (hr.evs = <<>> /\ prev_rd = 0 /\ prev_empty = 1)
  /\ hr.prv.rst = 1 => hr.evs = <<>>

\* A read was requested with empty low at an edge with reset high, and the
\* edge after it has reset low: no event.
C16_Witness ==
  /\ hr.prv.rst = 1 /\ hr.prv.strobe = 1 /\ hr.prv.flag = 0
  /\ hr.cur.rst = 0 /\ hr.evs = <<>> /\ edge = "rd"

\* C17: reset_async_fifo.  The two reset lines are equal at every point.  In
\* the hold loop both are high, wr, rd and data_in are 0, and the edges
\* awaited alternate, clk_wr first, for no more than cycles iterations.  In
\* the settle loop both are low, wr, rd and data_in are still 0 and the hold
\* loop has awaited exactly cycles edges of each clock.  When the procedure
\* returns it has awaited exactly cycles edges of each clock with reset high
\* and the fixed number of settle edges of each clock after the release.
C17_ResetProtocol ==
  /\ rst_wr = rst_rd
  /\ pc \in {"rst_hold_w", "rst_hold_r"} =>
       /\ rst_wr = 1 /\ wr = 0 /\ rd = 0 /\ data_in = 0
       /\ hres.hold_w = hres.hold_r + Bit(pc = "rst_hold_r")
       /\ hres.hold_w <= prog[ip].a /\ hres.hold_r < prog[ip].a
       /\ hres.settle_w = 0 /\ hres.settle_r = 0
  /\ pc \in {"rst_settle_w", "rst_settle_r"} =>
       /\ rst_wr = 0 /\ wr = 0 /\ rd = 0 /\ data_in = 0
       /\ hres.hold_w = prog[ip].a /\ hres.hold_r = prog[ip].a
       /\ hres.settle_w = hres.settle_r + Bit(pc = "rst_settle_r")
       /\ hres.settle_w <= prog[ip].b /\ hres.settle_r < prog[ip].b
  /\ ResetReturned =>
       /\ rst_wr = 0 /\ wr = 0 /\ rd = 0 /\ data_in = 0
       /\ hres = [hold_w |-> prog[ip - 1].a, hold_r |-> prog[ip - 1].a,
                  settle_w |-> prog[ip - 1].b, settle_r |-> prog[ip - 1].b]

\* reset_async_fifo(dut, cycles=2), invoked after the writes of the test, has
\* returned.
C17_Witness ==
  /\ prog = test_reset_during_operation /\ ResetReturned /\ ip > 2
  /\ hres = [hold_w |-> MidCycles, hold_r |-> MidCycles,
             settle_w |-> SmokeSettle, settle_r |-> SmokeSettle]

\* The payloads of the Write transactions, and the number of the Read
\* transactions, the driver has marked complete.
CompletedWrites == DataOf(SubSeq(stream, 1, ndone), "WRITE")
CompletedReads  == Len(DataOf(SubSeq(stream, 1, ndone), "READ"))
BetweenItems    == dpc \in {"drv_get", "drv_blocked"}

\* C18: every Write transaction the driver has marked complete was accepted
\* by the device: when no transaction is in flight the values the device has
\* accepted are the payloads of the completed Write transactions, in order.
C18_WritesAccepted == BetweenItems => accW = CompletedWrites

\* C19: every Read transaction the driver has marked complete was accepted
\* by the device: when no transaction is in flight the device has delivered
\* as many values as Read transactions are complete.
C19_ReadsAccepted == BetweenItems => Len(accR) = CompletedReads

\* C20: with both clocks ticking for ever and no reset after the start, every
\* transaction of a stream that never asks for more than the device can hold
\* is eventually marked complete.
C20_DriverProgress == <>(dpc = "drv_blocked" /\ ndone = Len(stream))

====
